---- MODULE Spec2Model ----
(***************************************************************************)
(* Starlink Direct-to-Cell tracker (kjbrazil/satellite-tracker).           *)
(*                                                                         *)
(* Two variants of the same page script are modelled:                      *)
(*   "richer"  - src/app.js: name filter, 25 degree threshold, compass;    *)
(*   "simpler" - src/unnamed/part_000 from line 588: no name filter,       *)
(*               threshold 0, no compass.                                  *)
(*                                                                         *)
(* Text is a sequence of one-character strings, so that trim, split,       *)
(* toLowerCase and includes are computed character by character.           *)
(* Angles are integers in hundredths of a degree; toFixed(1) yields tenths.*)
(***************************************************************************)
EXTENDS Integers, Sequences, FiniteSets, Bags, TLC

(***************************************************************************)
(* Loops.  Iterate applies Step to the accumulator once for every index of *)
(* lo..hi in increasing order (a for loop whose state is the accumulator). *)
(* The left half is compared with itself only to have it evaluated before  *)
(* the right half starts.                                                  *)
(***************************************************************************)
RECURSIVE Iterate(_, _, _, _)
Iterate(Step(_, _), acc, lo, hi) ==
    IF lo > hi THEN acc
    ELSE IF lo = hi THEN Step(acc, lo)
    ELSE LET mid  == (lo + hi) \div 2
             left == Iterate(Step, acc, lo, mid)
         IN  IF left = left THEN Iterate(Step, left, mid + 1, hi) ELSE acc

(***************************************************************************)
(* JavaScript string operations used by fetchTLEData.                      *)
(***************************************************************************)
IsWhiteSpace(c) == c \in {" ", "\n", "\r", "\t"}

\* String.prototype.trim: drop leading and trailing white space.
Trim(s) ==
    LET NonWs == {i \in 1..Len(s) : ~IsWhiteSpace(s[i])}
        Lead(a, i)  == IF a = i - 1 /\ IsWhiteSpace(s[i]) THEN i ELSE a
        first == Iterate(Lead, 0, 1, Len(s)) + 1
        Trail(a, k) == LET i == Len(s) + 1 - k
                       IN  IF a = i + 1 /\ IsWhiteSpace(s[i]) THEN i ELSE a
        last  == Iterate(Trail, Len(s) + 1, 1, Len(s)) - 1
    IN  IF NonWs = {} THEN <<>> ELSE SubSeq(s, first, last)

\* String.prototype.split('\n'): the pieces between newlines ("" gives [""]).
Split(s) ==
    LET Piece(a, i) == IF s[i] = "\n"
                       THEN [lines |-> Append(a.lines, a.cur), cur |-> <<>>]
                       ELSE [lines |-> a.lines, cur |-> Append(a.cur, s[i])]
        r == Iterate(Piece, [lines |-> <<>>, cur |-> <<>>], 1, Len(s))
    IN  Append(r.lines, r.cur)

LowerChar(c) ==
    CASE c = "C" -> "c" [] c = "D" -> "d" [] c = "E" -> "e" [] c = "I" -> "i"
      [] c = "L" -> "l" [] c = "O" -> "o" [] c = "R" -> "r" [] c = "S" -> "s"
      [] c = "T" -> "t" [] c = "X" -> "x" [] c = "F" -> "f" [] c = "M" -> "m"
      [] c = "Z" -> "z" [] OTHER -> c

\* String.prototype.toLowerCase
ToLowerCase(s) == [i \in 1..Len(s) |-> LowerChar(s[i])]

\* String.prototype.includes
Includes(s, sub) ==
    \E i \in 0..(Len(s) - Len(sub)) : SubSeq(s, i + 1, i + Len(sub)) = sub

(***************************************************************************)
(* The two variants and their configuration.                               *)
(***************************************************************************)
Variants == {"richer", "simpler"}

MIN_ELEVATION == 25

Deg(d) == d * 100

\* The elevation (hundredths of a degree) a record must exceed.
Threshold(v) == IF v = "richer" THEN Deg(MIN_ELEVATION) ELSE 0

FilterDtc        == <<"d", "t", "c">>
FilterDirectTo   == <<"d", "i", "r", "e", "c", "t", " ", "t", "o", " ", "c", "e", "l", "l">>
FilterDirectDash == <<"d", "i", "r", "e", "c", "t", "-", "t", "o", "-", "c", "e", "l", "l">>

\* The name test of the richer variant; the simpler variant keeps every record.
NameRetainedStrict(v, name) ==
    v = "richer" =>
        LET nameLower == ToLowerCase(name)
        IN  \/ Includes(name, FilterDtc)
            \/ Includes(nameLower, FilterDirectTo)
            \/ Includes(nameLower, FilterDirectDash)

NameRetained(v, name) ==
    v = "richer" =>
        LET nameLower == ToLowerCase(name)
        IN  \/ Includes(nameLower, FilterDtc)
            \/ Includes(nameLower, FilterDirectTo)
            \/ Includes(nameLower, FilterDirectDash)

\* The guard of the loop body: the group starting at line i (0-based) has
\* its three lines.
GroupCompleteOffByOne(i, n) == i + 3 < n

GroupComplete(i, n) == i + 2 < n

\* The for loop of fetchTLEData over lines: st.i is the loop variable
\* (0-based), st.sats the array being filled.
ParseLines(v, lines) ==
    LET Group(st, k) ==
            IF st.i < Len(lines)
            THEN IF GroupComplete(st.i, Len(lines)) /\ NameRetained(v, Trim(lines[st.i + 1]))
                 THEN [i |-> st.i + 3,
                       sats |-> Append(st.sats, [name |-> Trim(lines[st.i + 1]),
                                                 tle1 |-> lines[st.i + 2],
                                                 tle2 |-> lines[st.i + 3]])]
                 ELSE [i |-> st.i + 3, sats |-> st.sats]
            ELSE st
    IN  Iterate(Group, [i |-> 0, sats |-> <<>>], 1, Len(lines)).sats

\* const lines = text.trim().split('\n') and the loop over them.
ParseTLE(v, text) == ParseLines(v, Split(Trim(text)))

(***************************************************************************)
(* Documents the catalog endpoint may serve, put together from groups of   *)
(* lines joined by newlines.                                               *)
(***************************************************************************)
JoinLines(ls) ==
    LET Add(acc, i) == IF i = 1 THEN ls[i] ELSE acc \o <<"\n">> \o ls[i]
    IN  Iterate(Add, <<>>, 1, Len(ls))

Flatten(groups) ==
    LET Add(acc, i) == acc \o groups[i]
    IN  Iterate(Add, <<>>, 1, Len(groups))

SeqsUpTo(S, n) == UNION {[1..k -> S] : k \in 0..n}

DocsOf(groups, n) == {JoinLines(Flatten(gs)) : gs \in SeqsUpTo(groups, n)}

NameDtc     == <<" ", "S", "-", "D", "t", "C">>
NameDirect  == <<"D", "i", "r", "e", "c", "t", " ", "T", "o", " ", "C", "e", "l", "l">>
NameDashed  == <<"X", " ", "d", "i", "r", "e", "c", "t", "-", "t", "o", "-", "c", "e", "l", "l", "\r">>
NamePlain   == <<"d", "t", "-", "c", " ", "t", "o", " ", "c", "e", "l", "l">>
L1a == <<"1", "a">>
L2a == <<"2", "a", "\r">>
L1b == <<"1", "b", " ">>
L2b == <<"2", "b">>
L1c == <<"1", "c">>
L2c == <<" ", "2", "c">>

LoaderGroups ==
    { <<NameDtc, L1a, L2a>>, <<NameDirect, L1b, L2b>>, <<NameDashed, L1c, L2c>>,
      <<NamePlain, L1a, L2b>>, <<L1c>>, << <<>> >>, << <<" ">>, L2a >> }

MaxLoaderGroups == 3

LoaderDocs == DocsOf(LoaderGroups, MaxLoaderGroups)

RecA == <<NameDtc, L1a, L2a>>
RecB == <<NamePlain, L1b, L2b>>

MaxSessionGroups == 2

SessionDocs == DocsOf({RecA, RecB}, MaxSessionGroups)

\* A value looked up in a table computed once, or computed when the table
\* does not hold it.
Lookup(table, key, computed) == IF key \in DOMAIN table THEN table[key] ELSE computed

\* ParseTLE of the documents of the session, computed once.
ParseTable == [v \in Variants, d \in SessionDocs |-> ParseTLE(v, d)] @@ <<>>

Parsed(v, text) == Lookup(ParseTable, <<v, text>>, ParseTLE(v, text))

\* The outcome of one fetch: the body text of a success response, a
\* non-success status, a rejected fetch(), or a rejected response.text().
FetchOk(text) == [kind |-> "ok", text |-> text]
FetchFailures == {[kind |-> k, text |-> <<>>] : k \in {"http_error", "network_error", "body_error"}}

FetchResult(outcome, sats, parsed) ==
    IF outcome.kind = "ok"
    THEN [success |-> TRUE, satellites |-> parsed]
    ELSE [success |-> FALSE, satellites |-> sats]

\* fetchTLEData returning true although no record was retained is what the
\* code does; here an empty result is reported as a failure.
FetchTLEDataEmptyFails(v, sats, outcome) ==
    [FetchResult(outcome, sats, Parsed(v, outcome.text)) EXCEPT
        !.success = @ /\ Len(Parsed(v, outcome.text)) > 0]

\* fetchTLEData storing an empty catalog when the request fails.
FetchTLEDataClearsOnError(v, sats, outcome) ==
    FetchResult(outcome, <<>>, Parsed(v, outcome.text))

\* fetchTLEData: its return value and the value of satellites after it, given
\* the value of satellites before it and the outcome of the request.
FetchTLEData(v, sats, outcome) ==
    FetchResult(outcome, sats, Parsed(v, outcome.text))

(***************************************************************************)
(* Propagation.  satellite.js is a black box: twoline2satrec, propagate,   *)
(* gstime, eciToEcf and ecfToLookAngles together take the two element      *)
(* lines and an instant and either throw, or give no valid position, or    *)
(* give look angles.  What they give is the environment's choice: a        *)
(* profile per pair of element lines, read at the pass instant (offset 0)  *)
(* and at the scanned offsets (minutes).                                   *)
(***************************************************************************)
Pos(e)  == [k |-> "pos", el |-> e]
Invalid == [k |-> "invalid", el |-> 0]
Throw   == [k |-> "throw", el |-> 0]

\* The outcome at offset t (minutes after the pass instant) under profile p:
\* p.e0 at the instant itself, p.pre before minute p.rise, p.ef from then on.
OutcomeAt(p, t) == IF t = 0 THEN p.e0 ELSE IF t >= p.rise THEN p.ef ELSE p.pre

TleKey(sat) == <<sat.tle1, sat.tle2>>

TleKeys(sats) == {TleKey(sats[i]) : i \in 1..Len(sats)}

\* The environments of one pass over the catalog sats, with profiles from P.
Envs(sats, P) == [TleKeys(sats) -> P]

\* Number.prototype.toFixed(1) of a value in hundredths: the nearest tenth,
\* the larger one when two are equally near.
ToFixed1(x) == (x + 5) \div 10

\* Number.prototype.toFixed(0) of a value in hundredths.
ToFixed0(x) == (x + 50) \div 100

\* The threshold test with >= in place of >.
AboveThresholdInclusive(v, el) == el >= Threshold(v)

\* elevation > MIN_ELEVATION (richer), elevation > 0 (simpler)
AboveThreshold(v, el) == el > Threshold(v)

\* The test of the forward scan with the horizon as threshold in both variants.
ScanAboveHorizon(v, el) == el > 0

\* The same test as written in the forward scan.
ScanAboveThreshold(v, el) == el > Threshold(v)

\* The catch block of the per-record try: the record is skipped.  The other
\* version lets the exception end the pass.
OnPropagationErrorAbort(acc) == [acc EXCEPT !.aborted = TRUE]

OnPropagationError(acc) == acc

\* The body of the forEach for one record sat with profile p and outcome o.
CurrentRecord(v, acc, sat, p, o) ==
    IF acc.aborted THEN acc
    ELSE IF o.k = "throw" THEN OnPropagationError(acc)
    ELSE IF o.k = "pos" /\ AboveThreshold(v, o.el)
    THEN [acc EXCEPT !.visible =
             Append(@, [name      |-> sat.name,
                        azimuth   |-> ToFixed1(p.az),
                        elevation |-> ToFixed1(o.el),
                        distance  |-> ToFixed0(p.range)])]
    ELSE acc

\* The forEach over satellites at the pass instant.
CurrentPass(v, sats, env) ==
    LET Each(acc, i) ==
            CurrentRecord(v, acc, sats[i], env[TleKey(sats[i])],
                          OutcomeAt(env[TleKey(sats[i])], 0))
    IN  Iterate(Each, [visible |-> <<>>, aborted |-> FALSE], 1, Len(sats))

\* Array.prototype.sort is stable: x goes behind every element that does not
\* come after it.  Before(a, b) is "a sorts before b".
InsertSorted(Before(_, _), sorted, x) ==
    LET k == Cardinality({j \in 1..Len(sorted) : ~Before(x, sorted[j])})
    IN  SubSeq(sorted, 1, k) \o <<x>> \o SubSeq(sorted, k + 1, Len(sorted))

SortBy(Before(_, _), seq) ==
    LET Ins(sorted, i) == InsertSorted(Before, sorted, seq[i])
    IN  Iterate(Ins, <<>>, 1, Len(seq))

\* visible.sort((a, b) => parseFloat(b.elevation) - parseFloat(a.elevation))
\* with the operands exchanged: lowest first.
SortVisibleAscending(visible) ==
    LET Before(a, b) == a.elevation < b.elevation
    IN  SortBy(Before, visible)

\* visible.sort((a, b) => parseFloat(b.elevation) - parseFloat(a.elevation))
SortVisible(visible) ==
    LET Before(a, b) == a.elevation > b.elevation
    IN  SortBy(Before, visible)

\* upcoming.sort((a, b) => a.minutesUntil - b.minutesUntil)
SortUpcoming(upcoming) ==
    LET Before(a, b) == a.minutesUntil < b.minutesUntil
    IN  SortBy(Before, upcoming)

LOOKAHEAD_MINUTES == 180
SCAN_STEP == 2
SCAN_PREFIX == 100
MAX_UPCOMING == 5

\* The scan over the whole catalog.
ScanSliceWhole(sats) == sats

\* satellites.slice(0, 100)
ScanSlice(sats) == SubSeq(sats, 1, IF Len(sats) < SCAN_PREFIX THEN Len(sats) ELSE SCAN_PREFIX)

\* !upcoming.find(p => p.name === sat.name)
NotYetListed(upcoming, sat) == ~ \E j \in 1..Len(upcoming) : upcoming[j].name = sat.name

\* The test before upcoming.push without the name lookup.
MayListAlways(upcoming, sat) == TRUE

MayList(upcoming, sat) == NotYetListed(upcoming, sat)

\* if (upcoming.length >= 5) break
ScanFull(upcoming) == Len(upcoming) >= MAX_UPCOMING

\* The inner loop body with the name lookup before the propagation: a
\* record already listed is passed over without a call.
ScanRecordSkipsListed(v, st, sat, o) ==
    IF st.full \/ st.aborted \/ ~NotYetListed(st.upcoming, sat) THEN st
    ELSE IF o.k = "throw" THEN OnPropagationError([st EXCEPT !.calls = @ + 1])
    ELSE IF o.k = "pos" /\ ScanAboveThreshold(v, o.el)
    THEN [st EXCEPT !.calls = @ + 1,
                    !.upcoming = Append(@, [name |-> sat.name,
                                            minutesUntil |-> st.minutes]),
                    !.full = ScanFull(Append(st.upcoming,
                                             [name |-> sat.name,
                                              minutesUntil |-> st.minutes]))]
    ELSE [st EXCEPT !.calls = @ + 1]

\* The body of the inner loop for one record sat with outcome o; st.calls
\* counts the propagate calls made.
ScanRecord(v, st, sat, o) ==
    IF st.full \/ st.aborted THEN st
    ELSE IF o.k = "throw" THEN OnPropagationError([st EXCEPT !.calls = @ + 1])
    ELSE IF o.k = "pos" /\ ScanAboveThreshold(v, o.el) /\ MayList(st.upcoming, sat)
    THEN [st EXCEPT !.calls = @ + 1,
                    !.upcoming = Append(@, [name |-> sat.name,
                                            minutesUntil |-> st.minutes]),
                    !.full = ScanFull(Append(st.upcoming,
                                             [name |-> sat.name,
                                              minutesUntil |-> st.minutes]))]
    ELSE [st EXCEPT !.calls = @ + 1]

\* The outer loop with minutes++ in place of minutes += 2.
ScanAdvanceEveryMinute(r) ==
    IF r.full \/ ScanFull(r.upcoming)
    THEN [r EXCEPT !.full = TRUE]
    ELSE [r EXCEPT !.minutes = @ + 1]

\* The break of the inner loop alone: the outer loop goes on.
ScanAdvanceNoBreak(r) == [r EXCEPT !.minutes = @ + SCAN_STEP, !.full = FALSE]

\* After the inner loop: if (upcoming.length >= 5) break; else minutes += 2.
ScanAdvance(r) ==
    IF r.full \/ ScanFull(r.upcoming)
    THEN [r EXCEPT !.full = TRUE]
    ELSE [r EXCEPT !.minutes = @ + SCAN_STEP]

\* The forward scan over slice = satellites.slice(0, 100): the outer loop on
\* minutes and the inner loop on the records.  st.minutes is the outer loop
\* variable, st.full the state after a break.
ScanLoops(v, slice, env) ==
    LET Inner(st, i) ==
            ScanRecord(v, st, slice[i], OutcomeAt(env[TleKey(slice[i])], st.minutes))
        Outer(st, k) ==
            IF st.full \/ st.aborted \/ st.minutes > LOOKAHEAD_MINUTES THEN st
            ELSE ScanAdvance(Iterate(Inner, st, 1, Len(slice)))
    IN  Iterate(Outer, [minutes |-> 1, upcoming |-> <<>>, full |-> FALSE,
                        aborted |-> FALSE, calls |-> 0],
                1, (LOOKAHEAD_MINUTES - 1) \div SCAN_STEP + 1)

ForwardScan(v, sats, env) == ScanLoops(v, ScanSlice(sats), env)

NoPass == [invoked |-> FALSE, rendered |-> FALSE, threw |-> FALSE,
           visible |-> <<>>, upcoming |-> <<>>, scanCalls |-> 0]

\* The scan is run whatever the visible list holds.
NeedsScanAlways(visible) == TRUE

\* if (visible.length === 0)
NeedsScan(visible) == Len(visible) = 0

\* The end of calculatePositions after the scan: sort and renderApp.
AfterScan(scan) ==
    IF scan.aborted
    THEN [NoPass EXCEPT !.invoked = TRUE, !.threw = TRUE, !.scanCalls = scan.calls]
    ELSE [invoked |-> TRUE, rendered |-> TRUE, threw |-> FALSE,
          visible |-> <<>>, upcoming |-> SortUpcoming(scan.upcoming),
          scanCalls |-> scan.calls]

\* calculatePositions from the sort of visible on.
AfterCurrent(v, sats, env, aborted, visible) ==
    IF aborted
    THEN [NoPass EXCEPT !.invoked = TRUE, !.threw = TRUE]
    ELSE IF NeedsScan(visible)
    THEN [AfterScan(ForwardScan(v, sats, env)) EXCEPT !.visible = visible]
    ELSE [invoked |-> TRUE, rendered |-> TRUE, threw |-> FALSE,
          visible |-> visible, upcoming |-> <<>>, scanCalls |-> 0]

SortedCurrent(v, sats, env, cur) ==
    AfterCurrent(v, sats, env, cur.aborted, SortVisible(cur.visible))

\* calculatePositions without its first test.
CalculatePositionsUnguarded(v, loc, sats, env) ==
    SortedCurrent(v, sats, env, CurrentPass(v, sats, env))

\* calculatePositions: rendered says whether renderApp(visible, upcoming) was
\* reached, threw whether an exception left the function.
CalculatePositions(v, loc, sats, env) ==
    IF ~loc.set \/ Len(sats) = 0
    THEN [NoPass EXCEPT !.invoked = TRUE]
    ELSE SortedCurrent(v, sats, env, CurrentPass(v, sats, env))

(***************************************************************************)
(* Profiles the propagation may follow.  Below is an elevation under both  *)
(* thresholds.                                                             *)
(***************************************************************************)
Below == Pos(-500)

Profile(e0, pre, rise, ef, az) ==
    [e0 |-> e0, pre |-> pre, rise |-> rise, ef |-> ef, az |-> az, range |-> 55049]

PHigh      == Profile(Pos(6004), Below, 1, Below, 0)
PEdgeIn    == Profile(Pos(2504), Below, 1, Pos(2504), 1124)
PEdgeIn2   == Profile(Pos(2501), Below, 1, Below, 9000)
PEdgeOut   == Profile(Pos(2500), Below, 4, Pos(2600), 34875)
PZero      == Profile(Pos(0), Pos(0), 2, Pos(1), 18000)
PNever     == Profile(Below, Below, 1, Below, 0)
PRise1     == Profile(Below, Below, 1, Pos(4000), 0)
PRise3     == Profile(Below, Below, 3, Pos(4000), 0)
PRiseLast  == Profile(Below, Below, 179, Pos(4000), 0)
PRiseLate  == Profile(Below, Below, 180, Pos(4000), 0)
PThrow     == Profile(Throw, Throw, 1, Throw, 0)
PInvalid   == Profile(Invalid, Invalid, 1, Invalid, 0)
PThrowRise == Profile(Throw, Invalid, 5, Pos(3000), 0)
PEdgeLater == Profile(Below, Below, 1, Pos(2500), 0)

SessionProfiles == {PHigh, PRise3, PThrow}

NullLocation == [set |-> FALSE, latitude |-> 0, longitude |-> 0, altitude |-> 0]

SessionCatalogs == {ParseTLE(v, d) : v \in Variants, d \in SessionDocs}

KnownLocation == [set |-> TRUE, latitude |-> 0, longitude |-> 0, altitude |-> 0]

\* calculatePositions over the catalogs and profiles of the session, computed
\* once (the location enters the computation only by being known).
PassTable ==
    [v \in Variants, c \in SessionCatalogs, e \in UNION {Envs(c, SessionProfiles) : c \in SessionCatalogs} |->
        IF e \in Envs(c, SessionProfiles)
        THEN CalculatePositions(v, KnownLocation, c, e) ELSE NoPass] @@ <<>>

UnknownKey == <<"none", <<>>, <<>> >>

Sampled(v, loc, sats, env) ==
    Lookup(PassTable, IF loc.set THEN <<v, sats, env>> ELSE UnknownKey,
           CalculatePositions(v, loc, sats, env))

\* A call that starts from the lists an earlier call left.
CallKeepingLists(prev, h, v, loc, sats, env) ==
    [Sampled(v, loc, sats, env) EXCEPT !.visible = prev.visible \o @,
                                       !.upcoming = prev.upcoming \o @]

\* A call that an exception leaves before renderApp.
CallPassThrowing(prev, h, v, loc, sats, env) ==
    [NoPass EXCEPT !.invoked = TRUE, !.threw = TRUE]

\* One call of calculatePositions.  It reads userLocation and satellites and
\* makes one clock read; visible and upcoming are new arrays on every call,
\* and neither the result prev of an earlier call nor the heading h is read.
CallPass(prev, h, v, loc, sats, env) == Sampled(v, loc, sats, env)

(***************************************************************************)
(* The page: the state of one session.                                     *)
(***************************************************************************)
VARIABLES
    variant,          \* which script the page runs
    pc,               \* where init() and its callbacks are
    userLocation,     \* let userLocation
    satellites,       \* let satellites
    compassHeading,   \* let compassHeading
    updateInterval,   \* number of 5 second timers registered
    tleInterval,      \* number of 30 minute timers registered
    compass,          \* setupCompass: "pending", "listening" or "unavailable"
    refreshInFlight,  \* periodic fetchTLEData calls awaiting their response
    view,             \* what render() last put into the page
    lastFetch,        \* the fetchTLEData call the latest step completed, if any
    lastPass          \* the calculatePositions call the latest step made, if any

vars == <<variant, pc, userLocation, satellites, compassHeading, updateInterval,
          tleInterval, compass, refreshInFlight, view, lastFetch, lastPass>>

\* position.coords of the geolocation callback; altitude may be null.
GeoCoords ==
    { [latitude |-> 0, longitude |-> 0, altitude |-> 0, hasAltitude |-> FALSE],
      [latitude |-> 4550, longitude |-> -7357, altitude |-> 120, hasAltitude |-> TRUE] }

(***************************************************************************)
(* The sky map and the compass labels.  Azimuths given to                  *)
(* getCompassDirection are in hundredths of a degree; the azimuth and the  *)
(* elevation of a list entry are the tenths toFixed(1) printed.  Lengths   *)
(* on the map are in units of 1/90 pixel, in which radius * (1 - e / 90)   *)
(* is a whole number for every elevation e in tenths.                      *)
(***************************************************************************)
Directions ==
    << "N", "NNE", "NE", "ENE", "E", "ESE", "SE", "SSE",
       "S", "SSW", "SW", "WSW", "W", "WNW", "NW", "NNW" >>

\* Math.floor in place of Math.round.
GetCompassDirectionFloor(azimuth) == Directions[((azimuth \div 2250) % 16) + 1]

\* getCompassDirection: Math.round(azimuth / 22.5) % 16, where Math.round
\* takes a half upwards.
GetCompassDirection(azimuth) ==
    Directions[(((2 * azimuth + 2250) \div 4500) % 16) + 1]

\* parseFloat of a string printed by toFixed(1), in hundredths.
ParseFloat1(tenths) == tenths * 10

MAP_SIZE == 300

MAP_MARGIN == 20

\* const center = size / 2, in pixels.
MapCenter == MAP_SIZE \div 2

\* const radius = size / 2 - 20, in pixels.
MapRadius == MAP_SIZE \div 2 - MAP_MARGIN

\* Zenith at the edge, horizon at the centre.
ElevationRadiusInverted(elevation) == (MapRadius * elevation) \div 10

\* radius * (1 - (elevation / 90)) for an elevation in tenths, in 1/90 pixel
\* (the division is exact: the radius is a multiple of 10).
ElevationRadius(elevation) == (MapRadius * (900 - elevation)) \div 10

\* Pairs (cos, sin) in thirteenths: the points of the unit circle with such
\* coordinates.
UnitVectors ==
    {u \in [c : -13..13, s : -13..13] : u.c * u.c + u.s * u.s = 169}

\* What Math.cos and Math.sin may return for (azimuth - 90) * (Math.PI / 180),
\* azimuth in tenths: the exact pair on the four axes, a pair of the right
\* quadrant elsewhere.
CosSin(azimuth) ==
    IF azimuth % 3600 = 0 THEN {[c |-> 0, s |-> -13]}
    ELSE IF azimuth % 3600 = 900 THEN {[c |-> 13, s |-> 0]}
    ELSE IF azimuth % 3600 = 1800 THEN {[c |-> 0, s |-> 13]}
    ELSE IF azimuth % 3600 = 2700 THEN {[c |-> -13, s |-> 0]}
    ELSE {u \in UnitVectors :
            /\ u.c # 0 /\ u.s # 0
            /\ u.c > 0 <=> azimuth % 3600 < 1800
            /\ u.s > 0 <=> (azimuth % 3600 > 900 /\ azimuth % 3600 < 2700)}

\* The colour of a circle.
ElevationColor(elevation) ==
    IF elevation > 600 THEN "#4caf50"
    ELSE IF elevation > 300 THEN "#ffc107" ELSE "#ff9800"

\* The circle renderSkyMap draws for the entry sat, u being the cosine and
\* the sine of its angle: cx and cy in 1/90 pixel, and the title's direction.
SkyMapCircle(sat, u) ==
    [cx |-> MapCenter * 90 + (ElevationRadius(sat.elevation) * u.c) \div 13,
     cy |-> MapCenter * 90 + (ElevationRadius(sat.elevation) * u.s) \div 13,
     color |-> ElevationColor(sat.elevation),
     direction |-> GetCompassDirection(ParseFloat1(sat.azimuth)),
     azimuth |-> sat.azimuth, elevation |-> sat.elevation]

\* renderSkyMap(visibleSatellites, heading), trig[i] being the cosine and
\* sine for the i-th entry: nothing for an empty list.
RenderSkyMap(visibleSatellites, heading, trig) ==
    IF Len(visibleSatellites) = 0 THEN [rotation |-> 0, points |-> <<>>]
    ELSE [rotation |-> 0 - heading,
          points |-> [i \in 1..Len(visibleSatellites) |->
                         SkyMapCircle(visibleSatellites[i], trig[i])]]

\* The direction shown on the card of each visible entry.
CardDirections(visible) ==
    [i \in 1..Len(visible) |-> GetCompassDirection(ParseFloat1(visible[i].azimuth))]

BlankView == [kind |-> "blank", msg |-> "", visible |-> <<>>, upcoming |-> <<>>,
              map |-> FALSE, rotation |-> 0, count |-> 0,
              points |-> <<>>, directions |-> <<>>, asked |-> 0]

\* showLoading(message)
LoadingView(msg) == [BlankView EXCEPT !.kind = "loading", !.msg = msg]

\* showError(message)
ErrorView(msg) == [BlankView EXCEPT !.kind = "error", !.msg = msg]

\* The footer keeps the count of the catalog an earlier pass has shown.
TrackingViewOldCount(v, visible, upcoming, heading, sats) ==
    [kind |-> "tracking", msg |-> "", visible |-> visible, upcoming |-> upcoming,
     map |-> (v = "richer" /\ Len(visible) > 0),
     rotation |-> IF v = "richer" /\ Len(visible) > 0 THEN 0 - heading ELSE 0,
     count |-> IF view.kind = "tracking" THEN view.count ELSE Len(sats),
     points |-> <<>>, directions |-> CardDirections(visible), asked |-> 0]

\* renderApp(visible, upcoming): the lists with the direction of each card,
\* the sky map of the richer variant with its rotate(-heading) transform (map
\* says whether it is drawn; its circles are those of RenderSkyMap), and the
\* count of the footer.
TrackingView(v, visible, upcoming, heading, sats) ==
    [kind |-> "tracking", msg |-> "", visible |-> visible, upcoming |-> upcoming,
     map |-> (v = "richer" /\ Len(visible) > 0),
     rotation |-> IF v = "richer" /\ Len(visible) > 0 THEN 0 - heading ELSE 0,
     count |-> Len(sats),
     points |-> <<>>, directions |-> CardDirections(visible), asked |-> 0]

NoFetch == [done |-> FALSE, kind |-> "none", outcome |-> FetchOk(<<>>),
            before |-> <<>>, success |-> FALSE]

\* A step that calls fetch() and leaves the request in flight.
FetchRequested == [NoFetch EXCEPT !.kind = "request"]

NoPassYet == [catalog |-> <<>>, env |-> <<>>, heading |-> 0, res |-> NoPass]

Init ==
    /\ variant \in Variants
    /\ pc = "start"
    /\ userLocation = NullLocation
    /\ satellites = <<>>
    /\ compassHeading = 0
    /\ updateInterval = 0
    /\ tleInterval = 0
    /\ compass = "pending"
    /\ refreshInFlight = 0
    /\ view = BlankView
    /\ lastFetch = NoFetch
    /\ lastPass = NoPassYet

\* init(): the loading view, then the geolocation request or the error.
InitApp ==
    /\ pc = "start"
    /\ \/ /\ pc' = "AcquiringLocation"
          /\ view' = LoadingView("Getting your location...")
       \/ /\ pc' = "Failed"
          /\ view' = ErrorView("Geolocation is not supported by your browser")
    /\ lastFetch' = NoFetch
    /\ lastPass' = NoPassYet
    /\ UNCHANGED <<variant, userLocation, satellites, compassHeading, updateInterval,
                   tleInterval, compass, refreshInFlight>>

\* The callback goes on without storing the position.
LocationNotStored(c) == NullLocation

\* userLocation = { latitude, longitude, altitude: coords.altitude || 0 }
LocationOf(c) ==
    [set |-> TRUE, latitude |-> c.latitude, longitude |-> c.longitude,
     altitude |-> IF c.hasAltitude THEN c.altitude ELSE 0]

\* The success callback of getCurrentPosition up to its await.
GeoSuccess ==
    /\ pc = "AcquiringLocation"
    /\ \E c \in GeoCoords : userLocation' = LocationOf(c)
    /\ view' = LoadingView("Loading satellite data...")
    /\ pc' = "LoadingCatalog"
    /\ lastFetch' = FetchRequested
    /\ lastPass' = NoPassYet
    /\ UNCHANGED <<variant, satellites, compassHeading, updateInterval, tleInterval,
                   compass, refreshInFlight>>

\* The error callback of getCurrentPosition.
GeoError ==
    /\ pc = "AcquiringLocation"
    /\ view' = ErrorView("Location error")
    /\ pc' = "Failed"
    /\ lastFetch' = NoFetch
    /\ lastPass' = NoPassYet
    /\ UNCHANGED <<variant, userLocation, satellites, compassHeading, updateInterval,
                   tleInterval, compass, refreshInFlight>>

\* One call of calculatePositions with the catalog sats and heading h under
\* env: the view and the record of the pass it leaves.
PassView(pass, sats, h) ==
    IF pass.rendered THEN TrackingView(variant, pass.visible, pass.upcoming, h, sats)
    ELSE view

PassRecord(pass, sats, env, h) ==
    [catalog |-> sats, env |-> env, heading |-> h, res |-> pass]

\* The callback goes on to the first pass and the timers whatever the fetch
\* returned.
StartupProceedsAlways(success) == TRUE

\* if (!success) { showError(...); return; }
StartupProceeds(success) == success

\* A second timer of the kind is registered with the first.
SetIntervalTwice(n) == n + 2

\* setInterval(...): one more timer of the kind is registered.
SetInterval(n) == n + 1

\* The response to the fetch of init() arrives: the rest of fetchTLEData and
\* the rest of the success callback run without interruption.
StartupFetchDone(D, P) ==
    /\ pc = "LoadingCatalog"
    /\ \E outcome \in {FetchOk(d) : d \in D} \cup FetchFailures :
       \E r \in {FetchTLEData(variant, satellites, outcome)} :
          /\ satellites' = r.satellites
          /\ lastFetch' = [done |-> TRUE, kind |-> "startup", outcome |-> outcome,
                           before |-> satellites, success |-> r.success]
          /\ IF ~StartupProceeds(r.success)
             THEN /\ view' = ErrorView("Failed to fetch satellite data")
                  /\ pc' = "Failed"
                  /\ lastPass' = NoPassYet
                  /\ UNCHANGED <<updateInterval, tleInterval>>
             ELSE \E env \in Envs(r.satellites, P) :
                  \E pass \in {CallPass(lastPass.res, compassHeading, variant, userLocation,
                                           r.satellites, env)} :
                     /\ view' = PassView(pass, r.satellites, compassHeading)
                     /\ lastPass' = PassRecord(pass, r.satellites, env, compassHeading)
                     /\ IF pass.threw
                        THEN /\ pc' = "Aborted"
                             /\ UNCHANGED <<updateInterval, tleInterval>>
                        ELSE /\ pc' = "Tracking"
                             /\ updateInterval' = SetInterval(updateInterval)
                             /\ tleInterval' = SetInterval(tleInterval)
    /\ UNCHANGED <<variant, userLocation, compassHeading, compass, refreshInFlight>>

\* The 5 second timer fires: calculatePositions.
UpdateTick(P) ==
    /\ updateInterval > 0
    /\ \E env \in Envs(satellites, P) :
       \E pass \in {CallPass(lastPass.res, compassHeading, variant, userLocation,
                                satellites, env)} :
          /\ view' = PassView(pass, satellites, compassHeading)
          /\ lastPass' = PassRecord(pass, satellites, env, compassHeading)
    /\ lastFetch' = NoFetch
    /\ UNCHANGED <<variant, pc, userLocation, satellites, compassHeading,
                   updateInterval, tleInterval, compass, refreshInFlight>>

MaxRefreshInFlight == 1

\* The 30 minute timer fires: fetchTLEData up to its first await.
TleTick ==
    /\ tleInterval > 0
    /\ refreshInFlight < MaxRefreshInFlight
    /\ refreshInFlight' = refreshInFlight + 1
    /\ lastFetch' = FetchRequested
    /\ lastPass' = NoPassYet
    /\ UNCHANGED <<variant, pc, userLocation, satellites, compassHeading,
                   updateInterval, tleInterval, compass, view>>

\* The timer callback treats a failed refresh as init() treats a failed
\* startup fetch.
RefreshCallbackFatal(st, success) ==
    IF success THEN st
    ELSE [st EXCEPT !.pc = "Failed",
                    !.view = ErrorView("Failed to fetch satellite data")]

\* The timer callback shows a failed refresh in the page.
RefreshCallbackShowsError(st, success) ==
    IF success THEN st
    ELSE [st EXCEPT !.view = ErrorView("Failed to fetch satellite data")]

\* The timer callback clears the 30 minute timer when a refresh fails.
RefreshCallbackGivesUp(st, success) ==
    IF success THEN st ELSE [st EXCEPT !.tleInterval = 0]

\* async () => { await fetchTLEData(); }: the result is dropped, the state
\* st of the session, the page and the timer stay as they are.
RefreshCallback(st, success) == st

\* The response to a periodic fetch arrives: the rest of fetchTLEData; the
\* timer callback ignores the result.
RefreshDone(D) ==
    /\ refreshInFlight > 0
    /\ refreshInFlight' = refreshInFlight - 1
    /\ \E outcome \in {FetchOk(d) : d \in D} \cup FetchFailures :
       \E r \in {FetchTLEData(variant, satellites, outcome)} :
          /\ satellites' = r.satellites
          /\ lastFetch' = [done |-> TRUE, kind |-> "refresh", outcome |-> outcome,
                           before |-> satellites, success |-> r.success]
          /\ \E st \in {RefreshCallback([pc |-> pc, view |-> view,
                                          tleInterval |-> tleInterval], r.success)} :
                /\ pc' = st.pc
                /\ view' = st.view
                /\ tleInterval' = st.tleInterval
    /\ lastPass' = NoPassYet
    /\ UNCHANGED <<variant, userLocation, compassHeading, updateInterval, compass>>

\* setTimeout(setupCompass, 2000), richer variant only: the listener is
\* registered (at once, or when permission is granted) or it never is.
SetupCompass ==
    /\ variant = "richer"
    /\ compass = "pending"
    /\ compass' \in {"listening", "unavailable"}
    /\ lastFetch' = NoFetch
    /\ lastPass' = NoPassYet
    /\ UNCHANGED <<variant, pc, userLocation, satellites, compassHeading,
                   updateInterval, tleInterval, refreshInFlight, view>>

\* event.alpha in hundredths of a degree.
Alphas == {0, 8950, 27049}

\* Math.round of a value in hundredths: the nearest integer, halves upwards.
MathRound(x) == (x + 50) \div 100

\* The orientation listener with a non-null alpha.
Orientation(P) ==
    /\ compass = "listening"
    /\ \E alpha \in Alphas :
       \E heading \in {MathRound(alpha)} :
          /\ compassHeading' = heading
          /\ IF Len(satellites) > 0 /\ userLocation.set
             THEN \E env \in Envs(satellites, P) :
                  \E pass \in {CallPass(lastPass.res, heading, variant, userLocation,
                                           satellites, env)} :
                     /\ view' = PassView(pass, satellites, heading)
                     /\ lastPass' = PassRecord(pass, satellites, env, heading)
             ELSE /\ lastPass' = NoPassYet
                  /\ UNCHANGED view
    /\ lastFetch' = NoFetch
    /\ UNCHANGED <<variant, pc, userLocation, satellites, updateInterval, tleInterval,
                   compass, refreshInFlight>>

(***************************************************************************)
(* Spec: the whole session, with a small choice of documents and profiles. *)
(***************************************************************************)
Next ==
    \/ InitApp
    \/ GeoSuccess
    \/ GeoError
    \/ StartupFetchDone(SessionDocs, SessionProfiles)
    \/ UpdateTick(SessionProfiles)
    \/ TleTick
    \/ RefreshDone(SessionDocs)
    \/ SetupCompass
    \/ Orientation(SessionProfiles)

Spec == Init /\ [][Next]_vars

(***************************************************************************)
(* FairSpec: the session in a page that stays open, over an empty document *)
(* and a document of one record: a registered 30 minute timer fires in the *)
(* end, and a fetch in flight settles in the end.                          *)
(***************************************************************************)
RetryDocs == DocsOf({RecA}, 1)

RetryProfiles == {PHigh, PRise3}

FairNext ==
    \/ InitApp
    \/ GeoSuccess
    \/ GeoError
    \/ StartupFetchDone(RetryDocs, RetryProfiles)
    \/ UpdateTick(RetryProfiles)
    \/ TleTick
    \/ RefreshDone(RetryDocs)
    \/ SetupCompass
    \/ Orientation(RetryProfiles)

FairSpec ==
    Init /\ [][FairNext]_vars /\ WF_vars(TleTick) /\ WF_vars(RefreshDone(RetryDocs))

(***************************************************************************)
(* StartupSpec: the same session under the assumptions of startup: init()  *)
(* runs, the geolocation request calls one of its callbacks in the end,    *)
(* and the startup fetch settles in the end.                               *)
(***************************************************************************)
StartupSpec ==
    /\ Init /\ [][FairNext]_vars
    /\ WF_vars(InitApp)
    /\ WF_vars(GeoSuccess \/ GeoError)
    /\ WF_vars(StartupFetchDone(RetryDocs, RetryProfiles))

(***************************************************************************)
(* LoaderSpec: the session up to the end of the startup fetch, over the    *)
(* documents of LoaderDocs: complete and partial groups, empty lines,      *)
(* names that pass the filter in each of its three ways and one that does  *)
(* not, white space around names and element lines.                        *)
(***************************************************************************)
LoaderProfiles == {PHigh}

LoaderNext ==
    \/ InitApp
    \/ GeoSuccess
    \/ GeoError
    \/ StartupFetchDone(LoaderDocs, LoaderProfiles)

LoaderSpec == Init /\ [][LoaderNext]_vars

(***************************************************************************)
(* SamplerSpec: the session up to the end of the first pass, over catalogs *)
(* whose names all pass the filter of the richer variant:                  *)
(*   SamplerDocs - up to MaxSamplerGroups records out of three, the first  *)
(*                 and the third with the same element lines;              *)
(*   CrowdDocs   - seven records, the first and the third with one name;   *)
(*   LongDocs    - SCAN_PREFIX + 1 records.                                *)
(***************************************************************************)
DtcName(c) == <<"D", "T", "C", "-", c>>

SamplerGroups == { <<DtcName("1"), L1a, L2b>>, <<DtcName("2"), L1b, L2b>>,
                   <<DtcName("3"), L1a, L2b>> }

MaxSamplerGroups == 2

SamplerDocs == DocsOf(SamplerGroups, MaxSamplerGroups)

SamplerProfiles == {PHigh, PEdgeIn, PEdgeIn2, PEdgeOut, PZero, PNever, PRise1, PRise3,
                    PThrow, PInvalid, PThrowRise, PEdgeLater, PRiseLast, PRiseLate}

CrowdDocs ==
    { JoinLines(Flatten(<< <<DtcName("1"), L1a, L2b>>, <<DtcName("2"), L1a, L2b>>,
                           <<DtcName("1"), L1b, L2b>>, <<DtcName("3"), L1b, L2b>>,
                           <<DtcName("4"), L1a, L2b>>, <<DtcName("5"), L1b, L2b>>,
                           <<DtcName("6"), L1a, L2b>> >>)) }

CrowdProfiles == {PRise1, PRise3, PNever, PHigh, PEdgeIn}

\* One record that may fail, n records between, and a last one.
LongDoc(n) ==
    JoinLines(Flatten(<< <<DtcName("F"), L1a, L2b>> >>
                      \o [i \in 1..n |-> <<DtcName("M"), L1b, L2b>>]
                      \o << <<DtcName("Z"), L1c, L2b>> >>))

\* Catalogs of SCAN_PREFIX and of SCAN_PREFIX + 1 records.
LongDocs == {LongDoc(SCAN_PREFIX - 2), LongDoc(SCAN_PREFIX - 1)}

LongProfiles == {PThrow, PRise1}

SamplerNext ==
    \/ InitApp
    \/ GeoSuccess
    \/ GeoError
    \/ StartupFetchDone(SamplerDocs, SamplerProfiles)
    \/ StartupFetchDone(CrowdDocs, CrowdProfiles)
    \/ StartupFetchDone(LongDocs, LongProfiles)

SamplerSpec == Init /\ [][SamplerNext]_vars

(***************************************************************************)
(* ProjectorSpec: renderSkyMap and getCompassDirection on their own.  The  *)
(* visible list and the heading handed to renderSkyMap are drawn at the    *)
(* start: no entry or one entry, on and off the axes of the map, from the  *)
(* horizon to the zenith and on both sides of each colour limit.  The      *)
(* azimuths handed to getCompassDirection are the limits and the middles   *)
(* of the sixteen sectors and their neighbours a hundredth away.           *)
(***************************************************************************)
ProjectorAzimuths ==
    {0, 113, 450, 900, 1350, 1800, 2250, 2700, 3150}

ProjectorElevations == {0, 251, 300, 301, 600, 601, 900}

ProjectorHeadings == {0, 90}

ProjectorLists ==
    {<<>>} \cup
    { <<[name |-> DtcName("1"), azimuth |-> az, elevation |-> el, distance |-> 550]>> :
        az \in ProjectorAzimuths, el \in ProjectorElevations }

DirectionAzimuths ==
    {a \in {k * 1125 + d : k \in 0..32, d \in {-1, 0, 1}} : a >= 0 /\ a <= 36000}

ProjectorInit ==
    /\ variant = "richer"
    /\ pc = "start"
    /\ userLocation = NullLocation
    /\ satellites = <<>>
    /\ compassHeading \in ProjectorHeadings
    /\ updateInterval = 0
    /\ tleInterval = 0
    /\ compass = "pending"
    /\ refreshInFlight = 0
    /\ view = BlankView
    /\ lastFetch = NoFetch
    /\ \E list \in ProjectorLists :
          lastPass = [NoPassYet EXCEPT !.res.visible = list]

\* renderSkyMap(visible, compassHeading) for the list drawn at the start.
RenderSkyMapCall ==
    /\ \E trig \in {t \in [1..Len(lastPass.res.visible) -> UnitVectors] :
                       \A i \in 1..Len(lastPass.res.visible) :
                          t[i] \in CosSin(lastPass.res.visible[i].azimuth)} :
       \E m \in {RenderSkyMap(lastPass.res.visible, compassHeading, trig)} :
          view' = [BlankView EXCEPT !.kind = "skymap",
                                    !.visible = lastPass.res.visible,
                                    !.map = Len(m.points) > 0,
                                    !.rotation = m.rotation,
                                    !.points = m.points]
    /\ UNCHANGED <<variant, pc, userLocation, satellites, compassHeading,
                   updateInterval, tleInterval, compass, refreshInFlight,
                   lastFetch, lastPass>>

\* getCompassDirection(azimuth) for one of the azimuths.
GetCompassDirectionCall ==
    /\ \E azimuth \in DirectionAzimuths :
          view' = [BlankView EXCEPT !.kind = "direction",
                                    !.asked = azimuth,
                                    !.directions = <<GetCompassDirection(azimuth)>>]
    /\ UNCHANGED <<variant, pc, userLocation, satellites, compassHeading,
                   updateInterval, tleInterval, compass, refreshInFlight,
                   lastFetch, lastPass>>

ProjectorNext ==
    \/ RenderSkyMapCall
    \/ GetCompassDirectionCall

ProjectorSpec == ProjectorInit /\ [][ProjectorNext]_vars

(***************************************************************************)
(* The claims.  The words of the claims about documents are stated here    *)
(* without the loops of the model: the lines of a text are what lies       *)
(* between its newlines, trimming keeps what lies between the first and    *)
(* the last character that is not white space.                             *)
(***************************************************************************)
Trimmed(s) ==
    LET keep == {i \in 1..Len(s) : s[i] \notin {" ", "\n", "\r", "\t"}}
    IN  IF keep = {} THEN <<>>
        ELSE SubSeq(s, CHOOSE i \in keep : \A j \in keep : i <= j,
                       CHOOSE i \in keep : \A j \in keep : i >= j)

\* Line k (from 0) of s starts after the k-th newline and ends before the next.
LineCount(s) == Cardinality({i \in 1..Len(s) : s[i] = "\n"}) + 1

LineOf(s, k) ==
    LET breaks == {i \in 1..Len(s) : s[i] = "\n"}
        from == IF k = 0 THEN 0
                ELSE CHOOSE i \in breaks : Cardinality({j \in breaks : j < i}) = k - 1
        to   == IF k = Cardinality(breaks) THEN Len(s) + 1
                ELSE CHOOSE i \in breaks : Cardinality({j \in breaks : j < i}) = k
    IN  SubSeq(s, from + 1, to - 1)

\* The records of a document read three lines at a time, record k from 0.
GroupedRecords(text) ==
    [k \in 1..(LineCount(Trimmed(text)) \div 3) |->
        [name |-> Trimmed(LineOf(Trimmed(text), 3 * (k - 1))),
         tle1 |-> LineOf(Trimmed(text), 3 * (k - 1) + 1),
         tle2 |-> LineOf(Trimmed(text), 3 * (k - 1) + 2)]]

\* sub occurs in name when letter case is ignored (sub is in lower case).
OccursIgnoringCase(name, sub) ==
    \E off \in 0..(Len(name) - Len(sub)) :
        \A j \in 1..Len(sub) : LowerChar(name[off + j]) = sub[j]

DtcDesignation(name) ==
    \/ OccursIgnoringCase(name, <<"d", "t", "c">>)
    \/ OccursIgnoringCase(name, <<"d", "i", "r", "e", "c", "t", " ", "t", "o", " ", "c", "e", "l", "l">>)
    \/ OccursIgnoringCase(name, <<"d", "i", "r", "e", "c", "t", "-", "t", "o", "-", "c", "e", "l", "l">>)

DtcRecord(r) == DtcDesignation(r.name)

\* The latest step completed a fetch with a success response.
FetchedOk == lastFetch.done /\ lastFetch.outcome.kind = "ok"

\* C1: without the name filter (simpler variant), a fetched document whose
\* trimmed text has n lines leaves a catalog of exactly floor(n/3) records,
\* record k being (trim(line 3k), line 3k+1, line 3k+2), in document order; a
\* trailing group of one or two lines gives no record.
C1_LoaderGroupsOfThree ==
    (FetchedOk /\ variant = "simpler") =>
        /\ lastFetch.success
        /\ satellites = GroupedRecords(lastFetch.outcome.text)

\* A document of two records and a trailing partial group, the name of a
\* record having white space to trim.
C1_Witness ==
    /\ FetchedOk /\ variant = "simpler"
    /\ Len(satellites) = 2
    /\ LineCount(Trimmed(lastFetch.outcome.text)) % 3 # 0
    /\ \E k \in 1..2 : satellites[k].name # LineOf(Trimmed(lastFetch.outcome.text), 3 * (k - 1))

\* C2: with the name filter (richer variant) the catalog holds exactly the
\* parsed records whose lower-cased designation contains 'dtc', 'direct to
\* cell' or 'direct-to-cell', in the order of the document.
C2_LoaderNameFilter ==
    (FetchedOk /\ variant = "richer") =>
        satellites = SelectSeq(GroupedRecords(lastFetch.outcome.text), DtcRecord)

\* Three parsed records, the middle one dropped, a kept one matching only
\* once its upper-case letters are folded.
C2_Witness ==
    /\ FetchedOk /\ variant = "richer"
    /\ Len(GroupedRecords(lastFetch.outcome.text)) = 3
    /\ satellites = << GroupedRecords(lastFetch.outcome.text)[1],
                       GroupedRecords(lastFetch.outcome.text)[3] >>
    /\ \E k \in 1..2 : /\ ~Includes(satellites[k].name, FilterDtc)
                        /\ ~Includes(satellites[k].name, FilterDirectTo)
                        /\ ~Includes(satellites[k].name, FilterDirectDash)

\* C3: when the request ends with a non-success status or a network
\* exception (or the body cannot be read), fetchTLEData returns false and the
\* catalog is what it was before the call.
C3_FetchFailureKeepsCatalog ==
    (lastFetch.done /\ lastFetch.outcome.kind # "ok") =>
        /\ ~lastFetch.success
        /\ satellites = lastFetch.before

\* A periodic refresh fails while a catalog is loaded.
C3_Witness ==
    /\ lastFetch.done /\ lastFetch.kind = "refresh"
    /\ lastFetch.outcome.kind = "http_error"
    /\ Len(lastFetch.before) > 0
    /\ satellites = lastFetch.before

\* C4: a success response of which the name filter keeps no record is a
\* success with an empty catalog: fetchTLEData returns true, the catalog is
\* empty, the session is not Failed and the error view is not shown.
C4_EmptyCatalogIsSuccess ==
    (FetchedOk /\ variant = "richer"
       /\ SelectSeq(GroupedRecords(lastFetch.outcome.text), DtcRecord) = <<>>) =>
        /\ lastFetch.success
        /\ satellites = <<>>
        /\ pc # "Failed"
        /\ view.kind # "error"

\* The startup document holds a record and the filter drops it.
C4_Witness ==
    /\ FetchedOk /\ variant = "richer" /\ lastFetch.kind = "startup"
    /\ Len(GroupedRecords(lastFetch.outcome.text)) > 0
    /\ satellites = <<>>
    /\ pc = "Tracking"

(***************************************************************************)
(* Claims about one sampling pass: lastPass holds the catalog and the      *)
(* environment of the pass the latest step made, and its result.           *)
(***************************************************************************)
\* The latest step made a pass over a non-empty catalog.
PassOver == lastPass.res.invoked /\ Len(lastPass.catalog) > 0

\* What propagation gives for record sat at offset t of the latest pass.
Propagated(sat, t) ==
    LET p == lastPass.env[<<sat.tle1, sat.tle2>>]
    IN  IF t = 0 THEN p.e0 ELSE IF t < p.rise THEN p.pre ELSE p.ef

\* A valid position strictly above the threshold of the variant.
Clears(sat, t) ==
    /\ Propagated(sat, t).k = "pos"
    /\ Propagated(sat, t).el > (IF variant = "richer" THEN 2500 ELSE 0)

ClearsNow(sat) == Clears(sat, 0)

NamesOf(seq) == [i \in 1..Len(seq) |-> seq[i].name]

CountOf(seq, x) == Cardinality({i \in 1..Len(seq) : seq[i] = x})

\* C5: in every pass over a non-empty catalog the visible list has exactly
\* one entry for each record whose propagation at the pass instant gives a
\* valid position with elevation strictly above the threshold (25 degrees
\* richer, 0 simpler), and no entry for any other record.
C5_VisibleExactlyAboveThreshold ==
    PassOver =>
        /\ lastPass.res.rendered
        /\ Len(lastPass.res.visible) = Len(SelectSeq(lastPass.catalog, ClearsNow))
        /\ \A n \in {lastPass.catalog[i].name : i \in 1..Len(lastPass.catalog)} :
               CountOf(NamesOf(lastPass.res.visible), n)
                 = CountOf(NamesOf(SelectSeq(lastPass.catalog, ClearsNow)), n)

\* Richer variant: a record exactly at 25 degrees is left out, another one
\* above it is listed.
C5_Witness ==
    /\ PassOver /\ variant = "richer"
    /\ \E i \in 1..Len(lastPass.catalog) : Propagated(lastPass.catalog[i], 0) = Pos(2500)
    /\ Len(lastPass.res.visible) = 1

\* The elevation an entry shows for record sat: one decimal, in tenths.
ShownElevation(sat) == (Propagated(sat, 0).el + 5) \div 10

\* The names of the records of the catalog that clear the threshold now and
\* show elevation e, in catalog order.
CatalogNamesShowing(e) ==
    LET Showing(sat) == ClearsNow(sat) /\ ShownElevation(sat) = e
    IN  NamesOf(SelectSeq(lastPass.catalog, Showing))

VisibleNamesShowing(e) ==
    LET Showing(entry) == entry.elevation = e
    IN  NamesOf(SelectSeq(lastPass.res.visible, Showing))

\* C6: in the result of every pass the visible entries are in non-increasing
\* order of elevation, entries of equal elevation in catalog order, and the
\* upcoming entries are in non-decreasing order of minutes-until.
C6_ListsSorted ==
    PassOver =>
        /\ \A i, j \in 1..Len(lastPass.res.visible) :
               i < j => lastPass.res.visible[i].elevation >= lastPass.res.visible[j].elevation
        /\ \A e \in {lastPass.res.visible[i].elevation : i \in 1..Len(lastPass.res.visible)} :
               VisibleNamesShowing(e) = CatalogNamesShowing(e)
        /\ \A i, j \in 1..Len(lastPass.res.upcoming) :
               i < j => lastPass.res.upcoming[i].minutesUntil
                          <= lastPass.res.upcoming[j].minutesUntil

\* The sort moved entries, and two entries of different names show the same
\* elevation.
C6_Witness ==
    /\ PassOver
    /\ NamesOf(lastPass.res.visible) # NamesOf(SelectSeq(lastPass.catalog, ClearsNow))
    /\ \E i, j \in 1..Len(lastPass.res.visible) :
          /\ i < j
          /\ lastPass.res.visible[i].elevation = lastPass.res.visible[j].elevation
          /\ lastPass.res.visible[i].name # lastPass.res.visible[j].name

\* C7: in the result of every pass, whatever the catalog (also one in which
\* two records have the same name), the upcoming list has at most 5 entries
\* and no two of them have the same name.
C7_UpcomingAtMostFiveDistinct ==
    PassOver =>
        /\ Len(lastPass.res.upcoming) <= 5
        /\ \A i, j \in 1..Len(lastPass.res.upcoming) :
               i # j => lastPass.res.upcoming[i].name # lastPass.res.upcoming[j].name

\* Two records of one name both clear the threshold at a scanned minute, and
\* a record that clears it too is left out of a list of five.
C7_Witness ==
    /\ PassOver
    /\ Len(lastPass.res.upcoming) = 5
    /\ \E i, j \in 1..Len(lastPass.catalog) :
          /\ i < j
          /\ lastPass.catalog[i].name = lastPass.catalog[j].name
          /\ lastPass.catalog[i].tle1 # lastPass.catalog[j].tle1
          /\ Clears(lastPass.catalog[i], 1) /\ Clears(lastPass.catalog[j], 1)
    /\ \E i \in 1..Len(lastPass.catalog) :
          /\ Clears(lastPass.catalog[i], 1)
          /\ \A j \in 1..5 : lastPass.res.upcoming[j].name # lastPass.catalog[i].name

\* C8: visible and upcoming are never both non-empty, and when a record is
\* visible the forward scan is not run: it propagates nothing.
C8_ScanOnlyWhenNothingVisible ==
    PassOver =>
        (Len(lastPass.res.visible) > 0 =>
            /\ lastPass.res.upcoming = <<>>
            /\ lastPass.res.scanCalls = 0)

\* A record is visible while another one, not visible, clears the threshold
\* at a minute the scan would reach.
C8_Witness ==
    /\ PassOver
    /\ Len(lastPass.res.visible) > 0
    /\ \E i \in 1..Len(lastPass.catalog) :
          ~ClearsNow(lastPass.catalog[i]) /\ Clears(lastPass.catalog[i], 5)

\* Propagation of record sat fails (exception or no valid position) at the
\* pass instant and at every scanned minute.
FailsThroughout(sat) ==
    \A t \in {0, 1, lastPass.env[<<sat.tle1, sat.tle2>>].rise} : Propagated(sat, t).k # "pos"

\* The catalogs the latest pass would have seen with one record that fails
\* throughout absent.
CatalogsWithoutOneFailing ==
    { SubSeq(lastPass.catalog, 1, i - 1)
        \o SubSeq(lastPass.catalog, i + 1, Len(lastPass.catalog)) :
      i \in {k \in 1..Len(lastPass.catalog) : FailsThroughout(lastPass.catalog[k])} }

\* The lists of the latest pass are those of the pass over catalog c.
SameListsAsOver(c) ==
    /\ lastPass.res.visible = CalculatePositions(variant, userLocation, c, lastPass.env).visible
    /\ lastPass.res.upcoming = CalculatePositions(variant, userLocation, c, lastPass.env).upcoming

\* No entry of either list comes from a propagation that failed.
EntriesFromValidPositions ==
    /\ \A j \in 1..Len(lastPass.res.visible) :
          \E i \in 1..Len(lastPass.catalog) :
             /\ lastPass.catalog[i].name = lastPass.res.visible[j].name
             /\ Propagated(lastPass.catalog[i], 0).k = "pos"
    /\ \A j \in 1..Len(lastPass.res.upcoming) :
          \E i \in 1..Len(lastPass.catalog) :
             /\ lastPass.catalog[i].name = lastPass.res.upcoming[j].name
             /\ Propagated(lastPass.catalog[i], lastPass.res.upcoming[j].minutesUntil).k = "pos"

\* C9 as stated: a record whose propagation raises or gives no valid position
\* is skipped, the lists are exactly those of the pass with that record
\* absent, and the pass completes and renders.
C9_AsIfFailingRecordAbsent ==
    PassOver =>
        /\ lastPass.res.rendered /\ ~lastPass.res.threw
        /\ EntriesFromValidPositions
        /\ \A c \in CatalogsWithoutOneFailing : SameListsAsOver(c)

\* C9 amended: as above for catalogs of at most 100 records; in a longer
\* catalog the failing record is skipped as well and the pass completes and
\* renders, but the record keeps its place among the first 100 the scan reads.
C9_FailingRecordSkipped ==
    PassOver =>
        /\ lastPass.res.rendered /\ ~lastPass.res.threw
        /\ EntriesFromValidPositions
        /\ Len(lastPass.catalog) <= 100 =>
               \A c \in CatalogsWithoutOneFailing : SameListsAsOver(c)

\* A record throws at every instant while the scan lists another record of a
\* catalog of 100 records.
C9_Witness ==
    /\ PassOver
    /\ Len(lastPass.catalog) = 100
    /\ \E i \in 1..Len(lastPass.catalog) :
          FailsThroughout(lastPass.catalog[i]) /\ Propagated(lastPass.catalog[i], 0).k = "throw"
    /\ Len(lastPass.res.upcoming) > 0
    /\ lastPass.res.rendered

\* C10: with a known observer and an empty catalog a pass raises no exception
\* and produces the result with both lists empty: renderApp is given
\* visible = [] and upcoming = [].
C10_EmptyCatalogGivesEmptyLists ==
    (lastPass.res.invoked /\ userLocation.set /\ lastPass.catalog = <<>>) =>
        /\ ~lastPass.res.threw
        /\ lastPass.res.rendered
        /\ lastPass.res.visible = <<>>
        /\ lastPass.res.upcoming = <<>>
        /\ view.kind = "tracking" /\ view.visible = <<>> /\ view.upcoming = <<>>

ScannedMinutes == {t \in 1..180 : t % 2 = 1}

ScannedRecords == {lastPass.catalog[i] : i \in 1..Len(lastPass.catalog) \cap 1..100}

\* An elevation (hundredths of a degree) the variant accepts as visible.
AcceptedAsVisible(el) == el > (IF variant = "richer" THEN 2500 ELSE 0)

\* C12: within one variant one threshold serves both tests: a record is
\* listed as visible exactly on a valid position whose elevation the variant
\* accepts, and the forward scan lists a record on the same condition: every
\* upcoming entry stands for a valid position at its minute with an
\* elevation accepted as visible, and while fewer than 5 entries are listed
\* no record is left out that has such an elevation at a scanned minute.
C12_OneThresholdForBothTests ==
    PassOver =>
        /\ \A i \in 1..Len(lastPass.catalog) :
              ( /\ Propagated(lastPass.catalog[i], 0).k = "pos"
                /\ AcceptedAsVisible(Propagated(lastPass.catalog[i], 0).el) )
              => \E j \in 1..Len(lastPass.res.visible) :
                    lastPass.res.visible[j].name = lastPass.catalog[i].name
        /\ \A j \in 1..Len(lastPass.res.visible) :
              \E i \in 1..Len(lastPass.catalog) :
                 /\ lastPass.res.visible[j].name = lastPass.catalog[i].name
                 /\ Propagated(lastPass.catalog[i], 0).k = "pos"
                 /\ AcceptedAsVisible(Propagated(lastPass.catalog[i], 0).el)
        /\ \A j \in 1..Len(lastPass.res.upcoming) :
              \E r \in ScannedRecords :
                 /\ r.name = lastPass.res.upcoming[j].name
                 /\ Propagated(r, lastPass.res.upcoming[j].minutesUntil).k = "pos"
                 /\ AcceptedAsVisible(Propagated(r, lastPass.res.upcoming[j].minutesUntil).el)
        /\ (lastPass.res.visible = <<>> /\ Len(lastPass.res.upcoming) < 5) =>
              \A r \in ScannedRecords :
                 (\E t \in ScannedMinutes :
                     /\ Propagated(r, t).k = "pos"
                     /\ AcceptedAsVisible(Propagated(r, t).el))
                 => \E j \in 1..Len(lastPass.res.upcoming) :
                       lastPass.res.upcoming[j].name = r.name

\* Richer variant: a record exactly at 25 degrees now is not visible and is
\* listed once it is above, a record exactly at 25 degrees at the scanned
\* minutes is not listed.
C12_Witness ==
    /\ PassOver /\ variant = "richer"
    /\ lastPass.res.visible = <<>>
    /\ Len(lastPass.res.upcoming) = 1
    /\ \E r \in ScannedRecords :
          /\ Propagated(r, 0) = Pos(2500)
          /\ r.name = lastPass.res.upcoming[1].name
    /\ \E r \in ScannedRecords : Propagated(r, 1) = Pos(2500)

\* The session state of the page: init() is in AcquiringLocation from the
\* moment the script runs.
SessionState == IF pc = "start" THEN "AcquiringLocation" ELSE pc

StartupFetchFailed ==
    lastFetch.done /\ lastFetch.kind = "startup" /\ ~lastFetch.success

RefreshFailed ==
    lastFetch.done /\ lastFetch.kind = "refresh" /\ ~lastFetch.success

\* C13: the session state is one of AcquiringLocation, LoadingCatalog,
\* Tracking and Failed and changes only from AcquiringLocation to
\* LoadingCatalog, from LoadingCatalog to Tracking, from AcquiringLocation
\* to Failed (geolocation unsupported or refused, no fetch made) and from
\* LoadingCatalog to Failed (the startup fetch failed): Failed and Tracking
\* are never left.
C13_SessionStateMoves ==
    [][ /\ SessionState' \in {"AcquiringLocation", "LoadingCatalog", "Tracking", "Failed"}
        /\ \/ SessionState' = SessionState
           \/ /\ SessionState = "AcquiringLocation" /\ SessionState' = "LoadingCatalog"
              /\ userLocation'.set
           \/ /\ SessionState = "LoadingCatalog" /\ SessionState' = "Tracking"
              /\ lastFetch'.done /\ lastFetch'.kind = "startup" /\ lastFetch'.success
           \/ /\ SessionState = "AcquiringLocation" /\ SessionState' = "Failed"
              /\ ~userLocation'.set /\ ~lastFetch'.done
           \/ /\ SessionState = "LoadingCatalog" /\ SessionState' = "Failed"
              /\ StartupFetchFailed' ]_vars

\* A refresh has failed in Tracking and the session is still in Tracking.
C13_Witness == SessionState = "Tracking" /\ RefreshFailed

\* C14: once the location could not be acquired or the startup fetch has
\* failed, the session is and stays Failed with the error view in the page:
\* no timer is registered, no fetch is in flight or completes, and no step,
\* an orientation event included, calls calculatePositions.
C14_NothingRunsAfterStartupFailure ==
    [][ (StartupFetchFailed' \/ SessionState' = "Failed" \/ SessionState = "Failed") =>
          /\ SessionState' = "Failed"
          /\ updateInterval' = 0 /\ tleInterval' = 0
          /\ refreshInFlight' = 0
          /\ view'.kind = "error"
          /\ ~lastPass'.res.invoked
          /\ SessionState = "Failed" => (~lastFetch'.done /\ view' = view) ]_vars

\* The startup fetch has failed and an orientation event has come since.
C14_Witness ==
    /\ SessionState = "Failed" /\ userLocation.set
    /\ ~lastFetch.done
    /\ compass = "listening" /\ compassHeading # 0

EntersTracking == SessionState # "Tracking" /\ SessionState' = "Tracking"

\* C15: the step that enters Tracking, and no other, makes one pass at once
\* and registers the two timers, one of each kind: outside Tracking none is
\* registered, in Tracking exactly one 5 second timer (whose ticks call
\* calculatePositions) and one 30 minute timer (whose ticks start a fetch),
\* and no later step registers another.
C15_TimersStartOnEnteringTracking ==
    [][ /\ EntersTracking =>
              /\ lastPass'.res.invoked /\ lastPass'.catalog = satellites'
              /\ updateInterval = 0 /\ tleInterval = 0
        /\ IF SessionState' = "Tracking"
           THEN updateInterval' = 1 /\ tleInterval' = 1
           ELSE updateInterval' = 0 /\ tleInterval' = 0
        /\ (updateInterval' # updateInterval \/ tleInterval' # tleInterval)
              => EntersTracking
        /\ refreshInFlight' > refreshInFlight => tleInterval = 1
        /\ lastPass'.res.invoked => updateInterval' = 1 ]_vars

\* Tracking has just been entered: the first pass is made, both timers run.
C15_Witness ==
    /\ SessionState = "Tracking"
    /\ lastFetch.done /\ lastFetch.kind = "startup"
    /\ lastPass.res.invoked /\ lastPass.res.rendered
    /\ updateInterval = 1 /\ tleInterval = 1

\* C16: an orientation event that brings a new heading makes an extra pass
\* exactly when the visible list in the page is not empty; with no satellite
\* visible it changes the heading only.
C16_ExtraPassExactlyWhenVisible ==
    [][ compassHeading' # compassHeading =>
          (lastPass'.res.invoked <=> Len(view.visible) > 0) ]_vars

\* C17: after the startup fetch has failed, the next 30 minute cycle calls
\* fetch again.
C17_StartupFailureRetried == StartupFetchFailed ~> (lastFetch.kind = "request")

\* C17, as the code has it: a failed periodic refresh is followed by the
\* fetch of the next 30 minute cycle, while no step of a session that failed
\* at startup calls fetch.
C17_RefreshFailureRetried ==
    /\ RefreshFailed ~> (lastFetch.kind = "request")
    /\ [][ SessionState = "Failed" => lastFetch'.kind = "none" ]_vars

\* A periodic refresh has just failed with its timer still registered.
C17_Witness == RefreshFailed /\ tleInterval = 1 /\ refreshInFlight = 0

\* C18: a periodic refresh that fails changes nothing but the log: the page
\* keeps its view (never the error view), the session stays in Tracking,
\* both timers stay registered, the catalog is the one loaded before, and
\* every pass works on the stored catalog.
C18_RefreshFailureOnlyLogged ==
    [][ /\ RefreshFailed' =>
              /\ SessionState' = "Tracking"
              /\ view' = view /\ view'.kind # "error"
              /\ updateInterval' = 1 /\ tleInterval' = 1
              /\ satellites' = satellites
        /\ lastPass'.res.invoked => lastPass'.catalog = satellites' ]_vars

\* A refresh has failed while the page shows the lists of a loaded catalog.
C18_Witness ==
    /\ RefreshFailed
    /\ Len(satellites) > 0
    /\ view.kind = "tracking" /\ view.count = Len(satellites)

\* The square of the distance of a circle from the centre of the map, in
\* units of 1/90 pixel.
SquaredDistance(p) ==
    (p.cx - MapCenter * 90) * (p.cx - MapCenter * 90)
      + (p.cy - MapCenter * 90) * (p.cy - MapCenter * 90)

\* mapRadius * (1 - elevation / 90) in units of 1/90 pixel, elevation in
\* tenths of a degree.
RadialDistance(elevation) == (MapRadius * 90 * (900 - elevation)) \div 900

\* C19: every circle of the sky map lies at the distance
\* mapRadius * (1 - elevation / 90) from the centre of the map, whatever its
\* azimuth: at the centre itself for 90 degrees, at the distance mapRadius
\* for 0 degrees.
C19_RadialMapping ==
    view.kind = "skymap" =>
        \A i \in 1..Len(view.points) :
           /\ (MapRadius * 90 * (900 - view.points[i].elevation)) % 900 = 0
           /\ SquaredDistance(view.points[i])
                = RadialDistance(view.points[i].elevation)
                    * RadialDistance(view.points[i].elevation)
           /\ view.points[i].elevation = 900 =>
                 /\ view.points[i].cx = MapCenter * 90
                 /\ view.points[i].cy = MapCenter * 90
           /\ view.points[i].elevation = 0 =>
                 SquaredDistance(view.points[i]) = (MapRadius * 90) * (MapRadius * 90)

\* A circle for an entry on the horizon, off the axes of the map.
C19_Witness ==
    /\ view.kind = "skymap" /\ Len(view.points) = 1
    /\ view.points[1].elevation = 0
    /\ view.points[1].cx # MapCenter * 90
    /\ view.points[1].cy # MapCenter * 90

\* The direction getCompassDirection returned for the azimuth asked.
DirectionGiven == view.directions[1]

\* The sector 0..16 whose middle, a multiple of 22.5 degrees, is nearest to
\* the azimuth, the higher of two that are equally near.
NearestSector(azimuth) ==
    CHOOSE k \in 0..16 : azimuth - 2250 * k >= -1125 /\ azimuth - 2250 * k < 1125

C21_LocationSetOnce ==
    [][ /\ SessionState' = "AcquiringLocation" => ~userLocation'.set
        /\ SessionState' \in {"LoadingCatalog", "Tracking"} => userLocation'.set
        /\ userLocation' # userLocation =>
              /\ ~userLocation.set /\ userLocation'.set
              /\ SessionState = "AcquiringLocation"
              /\ SessionState' = "LoadingCatalog"
        /\ userLocation.set => userLocation' = userLocation ]_vars

\* In Tracking, with a location of non-zero altitude, a refresh has just
\* completed after an orientation event.
C21_Witness ==
    /\ SessionState = "Tracking"
    /\ userLocation.set /\ userLocation.altitude # 0
    /\ lastFetch.done /\ lastFetch.kind = "refresh"
    /\ compassHeading # 0

\* A pass of calculatePositions that reached renderApp.
PassRendered == lastPass.res.invoked /\ lastPass.res.rendered

C23_ViewFromEachPass ==
    (SessionState = "Tracking" /\ lastPass.res.invoked) =>
        /\ view.kind = "tracking"
        /\ view.visible = lastPass.res.visible
        /\ view.upcoming = lastPass.res.upcoming
        /\ view.count = Len(satellites)

\* A pass that rendered after a forward scan.
ScanOver == PassOver /\ lastPass.res.rendered /\ lastPass.res.visible = <<>>

\* The positions of the scanned records that carry the name.
ScannedPositionsNamed(name) ==
    {i \in 1..Len(lastPass.catalog) : i <= 100 /\ lastPass.catalog[i].name = name}

\* C24: the minutes of every upcoming entry are one of the offsets 1, 3, 5,
\* ..., 179, and when one scanned record alone carries the entry's name they
\* are the smallest of these offsets at which that record has a valid
\* position above the threshold.
C24_FirstSampledOffset ==
    ScanOver =>
        \A j \in 1..Len(lastPass.res.upcoming) :
           /\ lastPass.res.upcoming[j].minutesUntil \in ScannedMinutes
           /\ \A i \in ScannedPositionsNamed(lastPass.res.upcoming[j].name) :
                 ScannedPositionsNamed(lastPass.res.upcoming[j].name) = {i} =>
                    /\ Clears(lastPass.catalog[i], lastPass.res.upcoming[j].minutesUntil)
                    /\ \A t \in ScannedMinutes :
                          t < lastPass.res.upcoming[j].minutesUntil
                             => ~Clears(lastPass.catalog[i], t)

\* A record that is above the threshold from minute 4 on is listed with 5
\* minutes, another one that rises at minute 179 with 179.
C24_Witness ==
    /\ ScanOver
    /\ \E j \in 1..Len(lastPass.res.upcoming) :
       \E i \in ScannedPositionsNamed(lastPass.res.upcoming[j].name) :
          /\ ScannedPositionsNamed(lastPass.res.upcoming[j].name) = {i}
          /\ lastPass.res.upcoming[j].minutesUntil = 5
          /\ Clears(lastPass.catalog[i], 4)
    /\ \E j \in 1..Len(lastPass.res.upcoming) :
          lastPass.res.upcoming[j].minutesUntil = 179

\* C25: the forward scan looks at the first 100 records only: every
\* upcoming entry carries the name of one of them, so a record at position
\* 101 or later with a name of its own is never listed, even when it is
\* above the threshold at a scanned minute and fewer than 5 entries were
\* found.
C25_ScanReadsFirstHundred ==
    ScanOver =>
        /\ \A j \in 1..Len(lastPass.res.upcoming) :
              ScannedPositionsNamed(lastPass.res.upcoming[j].name) # {}
        /\ \A i \in 1..Len(lastPass.catalog) :
              (i > 100 /\ ScannedPositionsNamed(lastPass.catalog[i].name) = {})
                 => \A j \in 1..Len(lastPass.res.upcoming) :
                       lastPass.res.upcoming[j].name # lastPass.catalog[i].name

\* The record at position 101 is above the threshold at minute 1, fewer
\* than 5 entries were found, and it is not among them.
C25_Witness ==
    /\ ScanOver
    /\ Len(lastPass.catalog) = 101
    /\ Clears(lastPass.catalog[101], 1)
    /\ ScannedPositionsNamed(lastPass.catalog[101].name) = {}
    /\ Len(lastPass.res.upcoming) > 0 /\ Len(lastPass.res.upcoming) < 5

\* The number of records the scan reads at each offset.
ScannedCount == IF Len(lastPass.catalog) < 100 THEN Len(lastPass.catalog) ELSE 100

\* The last entry of the upcoming list, and the position of the record that
\* gave it: the first scanned record of its name above the threshold at its
\* minute.
LastUpcoming == lastPass.res.upcoming[Len(lastPass.res.upcoming)]

LastUpcomingPosition ==
    CHOOSE i \in ScannedPositionsNamed(LastUpcoming.name) :
       /\ Clears(lastPass.catalog[i], LastUpcoming.minutesUntil)
       /\ \A k \in ScannedPositionsNamed(LastUpcoming.name) :
             Clears(lastPass.catalog[k], LastUpcoming.minutesUntil) => i <= k

\* C26: the scan stops with the fifth entry: it has then called the
\* propagation for every scanned record at each earlier offset and, at the
\* offset of the fifth entry, for the records up to the one that gave it
\* and no further; with fewer than 5 entries it has called it for every
\* scanned record at each of the 90 offsets.
C26_ScanStopsAtFive ==
    ScanOver =>
        /\ Len(lastPass.res.upcoming) <= 5
        /\ IF Len(lastPass.res.upcoming) = 5
           THEN lastPass.res.scanCalls
                  = ((LastUpcoming.minutesUntil - 1) \div 2) * ScannedCount
                      + LastUpcomingPosition
           ELSE lastPass.res.scanCalls = 90 * ScannedCount

\* The fifth entry was found at minute 3, before the end of the catalog.
C26_Witness ==
    /\ ScanOver
    /\ Len(lastPass.res.upcoming) = 5
    /\ LastUpcoming.minutesUntil = 3
    /\ LastUpcomingPosition < ScannedCount
    /\ lastPass.res.scanCalls = ScannedCount + LastUpcomingPosition

\* The offsets after minute m that the scan still samples.
OffsetsAfter(m) == (179 - m) \div 2

\* The calls saved if every record that gave an entry were left out at the
\* offsets after its own.
CallsSaved ==
    LET saved[k \in 0..Len(lastPass.res.upcoming)] ==
            IF k = 0 THEN 0
            ELSE saved[k - 1] + OffsetsAfter(lastPass.res.upcoming[k].minutesUntil)
    IN  saved[Len(lastPass.res.upcoming)]

\* C27: a record that gave an upcoming entry is not propagated at any later
\* offset of the scan: a scan that ran to its end made a call for every
\* scanned record at each of the 90 offsets but those.
C27_ListedRecordNotPropagatedAgain ==
    (ScanOver /\ Len(lastPass.res.upcoming) < 5) =>
        lastPass.res.scanCalls + CallsSaved = 90 * ScannedCount

\* C27, as the code has it: a record that gave an upcoming entry gives no
\* second one, the name of each entry being looked up before a push, but it
\* is propagated at every later offset like any other record: a scan that
\* ran to its end made a call for every scanned record at each of the 90
\* offsets, whatever it listed.
C27_ListedRecordPropagatedNotListedAgain ==
    ScanOver =>
        /\ \A j, k \in 1..Len(lastPass.res.upcoming) :
              lastPass.res.upcoming[j].name = lastPass.res.upcoming[k].name => j = k
        /\ Len(lastPass.res.upcoming) < 5 =>
              lastPass.res.scanCalls = 90 * ScannedCount

\* A scan that listed a record at minute 1 ran to its end.
C27_Witness ==
    /\ ScanOver
    /\ Len(lastPass.res.upcoming) > 0 /\ Len(lastPass.res.upcoming) < 5
    /\ lastPass.res.upcoming[1].minutesUntil = 1
    /\ lastPass.res.scanCalls = 90 * ScannedCount

\* C28: whenever the page shows a sky map, the rotation of the map is the
\* negative of the stored heading.
C28_RotationNeverStale ==
    view.map => view.rotation = 0 - compassHeading

\* C29: renderApp is called only with the location set and a non-empty
\* catalog stored, and no step puts a tracking view into the page in place
\* of another view while the location is unknown or the catalog is empty.
C29_RenderOnlyWithData ==
    [][ /\ lastPass'.res.rendered =>
              /\ userLocation'.set
              /\ Len(satellites') > 0
              /\ lastPass'.catalog = satellites'
        /\ (view' # view /\ view'.kind = "tracking") =>
              /\ lastPass'.res.rendered
              /\ userLocation'.set
              /\ Len(satellites') > 0 ]_vars

\* A tick in Tracking found the catalog empty and left the loading view.
C29_Witness ==
    /\ SessionState = "Tracking"
    /\ lastPass.res.invoked /\ ~lastPass.res.rendered
    /\ ~lastFetch.done
    /\ satellites = <<>>
    /\ view.kind = "loading"

\* C30: when the geolocation request calls one of its callbacks in the end
\* and the startup fetch settles in the end, the session leaves
\* AcquiringLocation and LoadingCatalog and reaches Tracking or Failed, and
\* it is never in a state other than these four.
C30_StartupProgress ==
    /\ <>(SessionState \in {"Tracking", "Failed"})
    /\ [](SessionState \in {"AcquiringLocation", "LoadingCatalog", "Tracking", "Failed"})

\* Tracking has been reached over an empty catalog.
C30_Witness ==
    /\ SessionState = "Tracking"
    /\ lastFetch.done /\ lastFetch.kind = "startup" /\ lastFetch.success
    /\ satellites = <<>>

====
